---- MODULE Spec2Model ----
(***************************************************************************)
(* CertFileDB (src/cevast/certdb/cert_file_db.py): a certificate store on  *)
(* the file system.  Certificates are inserted as loose files              *)
(* certs/id[:2]/id[:4]/<id>.pem, the shard directories of the open batch   *)
(* are kept in the in-memory set _transaction, and commit merges every     *)
(* journaled directory into certs/id[:2]/id[:4].zip.                       *)
(*                                                                         *)
(* Strings are sequences of one-character strings.  "CR" and "LF" stand    *)
(* for the carriage return and the line feed.  The file system is POSIX    *)
(* (os.linesep = LF) and file contents are ASCII.                          *)
(***************************************************************************)
EXTENDS Integers, Sequences, FiniteSets, TLC

\* ------------------------------------------------------------------------
\* Bounds and inputs
\* ------------------------------------------------------------------------

\* The callers use the ids IdOf(0) .. IdOf(MaxId) and the empty id.
MaxId == 2

HexDigit == <<"0", "1">>

\* A five character fingerprint: n written with the digits 0 and 1.
\* IdOf(0) and IdOf(1) share the shard 0000, IdOf(2) lies in 0001.
IdOf(n) == [i \in 1..5 |-> HexDigit[((n \div (2 ^ (5 - i))) % 2) + 1]]

ValidIds == {IdOf(n) : n \in 0..MaxId}

\* The ids passed to the store: the fingerprints and the empty string.
IdPool == ValidIds \cup {<<>>}

\* The certificate texts passed to insert: the empty string, a one line
\* text and the same line terminated by CR LF.
CertPool == {<<>>, <<"A">>, <<"A", "CR", "LF">>}

\* The values of the cores parameter of commit.
CoresPool == {1, 2}

\* ------------------------------------------------------------------------
\* State
\* ------------------------------------------------------------------------

VARIABLES
    loose,        \* loc -> (file name -> bytes): the shard directories on disk
    zips,         \* loc -> sequence of [name, data]: the shard archives on disk
    transaction,  \* self._transaction: the journal, a set of locs
    lastOp,       \* the last call made on the instance and how it ended
    batch,        \* the caller's open batch: id -> cert for every loose file
                  \* that an insert has written since the last commit or
                  \* rollback
    storage,      \* os.path.exists(self._cert_storage): the root has certs/
    other         \* a second CertFileDB instance on the same root that the
                  \* caller is not calling now: its journal and open batch

vars == <<loose, zips, transaction, lastOp, batch, storage, other>>

\* ------------------------------------------------------------------------
\* Paths
\* ------------------------------------------------------------------------

Min(a, b) == IF a <= b THEN a ELSE b

\* The slice s[:n].
Prefix(s, n) == SubSeq(s, 1, Min(n, Len(s)))

\* os.path.join(self._cert_storage, id[:2], id[:4]); the archive of the
\* shard is loc + '.zip' and is keyed by the same pair.
GetCertLocation(id) == <<Prefix(id, 2), Prefix(id, 4)>>

\* id + '.pem'
IdToFilename(id) == id \o <<".pem">>

\* ------------------------------------------------------------------------
\* File contents
\* ------------------------------------------------------------------------

\* open(file, 'w').write(cert): text mode, LF is written as os.linesep = LF.
WriteText(cert) == cert

\* open(file, 'r').read(): text mode with universal newlines, CR LF and a
\* lone CR are returned as LF.
RECURSIVE ReadText(_)
ReadText(b) ==
    IF b = <<>> THEN <<>>
    ELSE IF Head(b) = "CR"
         THEN IF Len(b) > 1 /\ b[2] = "LF"
              THEN <<"LF">> \o ReadText(SubSeq(b, 3, Len(b)))
              ELSE <<"LF">> \o ReadText(Tail(b))
         ELSE <<Head(b)>> \o ReadText(Tail(b))

\* zf.open(name).read().decode('utf-8'): the bytes as they are.
ZipReadText(b) == b

\* ------------------------------------------------------------------------
\* Archives
\* ------------------------------------------------------------------------

\* zf.namelist()
NameList(zf) == {zf[i].name : i \in 1..Len(zf)}

\* zf.getinfo(name): the entry added last under the name; KeyError when
\* there is none (the caller tests NameList first).
GetInfo(zf, name) ==
    LET idx == {i \in 1..Len(zf) : zf[i].name = name}
        last == CHOOSE i \in idx : \A j \in idx : j <= i
    IN  zf[last]

\* The orders in which os.listdir may return the names of a directory.
ListDirOrders(names) ==
    {s \in [1..Cardinality(names) -> names] : \A n \in names : \E i \in DOMAIN s : s[i] = n}

\* ------------------------------------------------------------------------
\* Lookup (CertFileDBReadOnly)
\* ------------------------------------------------------------------------

Found(v) == [ok |-> TRUE, val |-> v]
CertNotAvailableError(id) == [ok |-> FALSE, val |-> id]

\* os.path.exists(os.path.join(loc, filename))
LooseFileExists(loc, filename) ==
    loc \in DOMAIN loose /\ filename \in DOMAIN loose[loc]

\* The archive of loc exists and has an entry under filename.
ZipHasEntry(loc, filename) ==
    loc \in DOMAIN zips /\ filename \in NameList(zips[loc])

Get(id) ==
    LET loc == GetCertLocation(id)
        filename == IdToFilename(id)
    IN  IF transaction # {} /\ LooseFileExists(loc, filename)
        THEN Found(ReadText(loose[loc][filename]))
        ELSE IF ZipHasEntry(loc, filename)
             THEN Found(ZipReadText(GetInfo(zips[loc], filename).data))
             ELSE CertNotAvailableError(id)

\* exists that looks into the archive only.
Exists_ArchiveOnly(id) ==
    ZipHasEntry(GetCertLocation(id), IdToFilename(id))

Exists(id) ==
    LET loc == GetCertLocation(id)
        filename == IdToFilename(id)
    IN  IF transaction # {} /\ LooseFileExists(loc, filename)
        THEN TRUE
        ELSE ZipHasEntry(loc, filename)

\* The directories a caller hands to export: existing directories outside
\* the certificate storage.
TargetDirs == {<<"out">>, <<"tmp">>}

\* os.path.join(target_dir, filename)
JoinPath(dir, filename) == dir \o <<"/">> \o filename

\* export: shutil.copyfile of the loose file when the journal is not empty
\* and the file exists, else zf.extract from the archive (KeyError or
\* FileNotFoundError: not available); the path of the copy is returned.
Export(id, target_dir) ==
    LET loc == GetCertLocation(id)
        filename == IdToFilename(id)
    IN  IF transaction # {} /\ LooseFileExists(loc, filename)
        THEN Found(JoinPath(target_dir, filename))
        ELSE IF loc \in DOMAIN zips /\ filename \in NameList(zips[loc])
             THEN Found(JoinPath(target_dir, filename))
             ELSE CertNotAvailableError(id)

\* exists_all that answers for the first id only.
ExistsAll_FirstOnly(ids) ==
    IF ids = <<>> THEN TRUE ELSE Exists(Head(ids))

\* exists_all: the loop returns False at the first id that does not exist.
RECURSIVE ExistsAll(_)
ExistsAll(ids) ==
    IF ids = <<>> THEN TRUE
    ELSE IF ~Exists(Head(ids)) THEN FALSE
    ELSE ExistsAll(Tail(ids))

\* ------------------------------------------------------------------------
\* Operations (CertFileDB)
\* ------------------------------------------------------------------------

\* A call of the instance: the operation, the cores argument of commit, the
\* journal handed to commit or rollback, how the call ended and, for an
\* insert that passed another cert than the one the open batch has written
\* for the id, that id (<<>> otherwise).
Call(op, cores, targets, outcome, reinsert) ==
    [op |-> op, cores |-> cores, targets |-> targets, outcome |-> outcome,
     reinsert |-> reinsert]

\* os.makedirs(loc, exist_ok=True)
MakeDirs(dirs, loc) ==
    IF loc \in DOMAIN dirs THEN dirs
    ELSE [l \in DOMAIN dirs \cup {loc} |-> IF l = loc THEN <<>> ELSE dirs[l]]

\* The directories after writing bytes to a new file of the directory loc.
WriteFile(dirs, loc, filename, bytes) ==
    [dirs EXCEPT ![loc] =
        [f \in DOMAIN dirs[loc] \cup {filename} |->
            IF f = filename THEN bytes ELSE dirs[loc][f]]]

\* clean_storage_target that removes nothing.
CleanStorageTarget_Keep(dirs, targets) == dirs

\* shutil.rmtree(target) for every target of the set.
CleanStorageTarget(dirs, targets) ==
    [l \in DOMAIN dirs \ targets |-> dirs[l]]

\* self._transaction.add(loc), with the journal replaced instead of extended.
JournalAdd_Replace(loc) == {loc}

\* self._transaction.add(loc)
JournalAdd(loc) == transaction \cup {loc}

\* _create_cert_location: the directory is created unless loc is journaled.
CreateCertLocation(id) ==
    LET loc == GetCertLocation(id)
    IN  IF loc \notin transaction THEN MakeDirs(loose, loc) ELSE loose

\* insert that resolves (and creates) the shard directory before it
\* validates its arguments.
Insert_ValidateLate(id, cert) ==
    /\ lastOp' = Call("insert", 0, {}, "CertInvalidError", <<>>)
    /\ loose' = CreateCertLocation(id)
    /\ UNCHANGED <<zips, transaction, batch, storage, other>>

Insert(id, cert) ==
    LET loc == GetCertLocation(id)
        filename == IdToFilename(id)
        dirs == CreateCertLocation(id)
    IN  IF id = <<>> \/ cert = <<>>
        THEN /\ lastOp' = Call("insert", 0, {}, "CertInvalidError", <<>>)
             /\ UNCHANGED <<loose, zips, transaction, batch, storage, other>>
        ELSE IF loc \in DOMAIN dirs /\ filename \in DOMAIN dirs[loc]
        THEN /\ loose' = dirs
             /\ lastOp' = Call("insert", 0, {}, "exists",
                                IF id \in DOMAIN batch /\ batch[id] # cert
                                THEN id ELSE <<>>)
             /\ UNCHANGED <<zips, transaction, batch, storage, other>>
        ELSE IF loc \notin DOMAIN dirs
        THEN \* open(cert_file, 'w') in a journaled directory that is gone
             /\ lastOp' = Call("insert", 0, {}, "FileNotFoundError", <<>>)
             /\ UNCHANGED <<loose, zips, transaction, batch, storage, other>>
        ELSE /\ loose' = WriteFile(dirs, loc, filename, WriteText(cert))
             /\ transaction' = JournalAdd(loc)
             /\ lastOp' = Call("insert", 0, {}, "inserted", <<>>)
             /\ batch' = [i \in DOMAIN batch \cup {id} |->
                             IF i = id THEN cert ELSE batch[i]]
             /\ UNCHANGED <<zips, storage, other>>

\* rollback that also deletes the archives of the journaled shards.
Rollback_WithArchives ==
    /\ loose' = CleanStorageTarget(loose, transaction)
    /\ zips' = [l \in DOMAIN zips \ transaction |-> zips[l]]
    /\ transaction' = {}
    /\ lastOp' = Call("rollback", 0, transaction, "ok", <<>>)
    /\ batch' = <<>>
    /\ UNCHANGED <<storage, other>>

\* clean_storage_target(self._transaction), then the journal is cleared.
\* shutil.rmtree finds every journaled directory (TransactionDirsExist).
Rollback ==
    /\ transaction \subseteq DOMAIN loose
    /\ loose' = CleanStorageTarget(loose, transaction)
    /\ transaction' = {}
    /\ lastOp' = Call("rollback", 0, transaction, "ok", <<>>)
    /\ batch' = <<>>
    /\ UNCHANGED <<zips, storage, other>>

\* persist_and_clean_storage_target that only opens the archive and writes
\* no loose file into it.
PersistTarget_WriteNothing(target, names) ==
    IF target \in DOMAIN zips THEN zips[target] ELSE <<>>

\* persist_and_clean_storage_target without the namelist filter of the
\* append mode.
PersistTarget_NoFilter(target, names) ==
    LET zf == IF target \in DOMAIN zips THEN zips[target] ELSE <<>>
    IN  zf \o [i \in 1..Len(names) |->
                  [name |-> names[i], data |-> loose[target][names[i]]]]

\* persist_and_clean_storage_target that always opens the archive in mode
\* "w": an archive that exists is truncated.
PersistTarget_Truncate(target, names) ==
    [i \in 1..Len(names) |-> [name |-> names[i], data |-> loose[target][names[i]]]]

\* The archive of target after persist_and_clean_storage_target, the loose
\* files being written in the order names.
PersistTarget(target, names) ==
    LET append == target \in DOMAIN zips
        zf == IF append THEN zips[target] ELSE <<>>
        certs == IF append
                 THEN SelectSeq(names, LAMBDA c : c \notin NameList(zf))
                 ELSE names
    IN  zf \o [i \in 1..Len(certs) |->
                  [name |-> certs[i], data |-> loose[target][certs[i]]]]

\* cores <= 1: every journaled target is persisted and cleaned, then the
\* journal is cleared.  os.listdir finds every journaled directory
\* (TransactionDirsExist).
CommitSequential(cores) ==
    /\ cores <= 1
    /\ transaction \subseteq DOMAIN loose
    /\ \E order \in [transaction -> UNION {ListDirOrders(DOMAIN loose[t]) : t \in transaction}] :
          /\ \A t \in transaction : order[t] \in ListDirOrders(DOMAIN loose[t])
          /\ zips' = [l \in DOMAIN zips \cup transaction |->
                         IF l \in transaction THEN PersistTarget(l, order[l]) ELSE zips[l]]
    /\ loose' = CleanStorageTarget(loose, transaction)
    /\ transaction' = {}
    /\ lastOp' = Call("commit", cores, transaction, "ok", <<>>)
    /\ batch' = <<>>
    /\ UNCHANGED <<storage, other>>

\* cores > 1: the pool is not implemented, the loops only log, then the
\* journal is cleared.
CommitParallel(cores) ==
    /\ cores > 1
    /\ transaction' = {}
    /\ lastOp' = Call("commit", cores, transaction, "ok", <<>>)
    /\ batch' = <<>>
    /\ UNCHANGED <<loose, zips, storage, other>>

\* ------------------------------------------------------------------------
\* Specifications
\* ------------------------------------------------------------------------

\* A writable store constructed over a root that holds an empty certs/.
Init ==
    /\ loose = <<>>
    /\ zips = <<>>
    /\ transaction = {}
    /\ lastOp = Call("init", 0, {}, "ok", <<>>)
    /\ batch = <<>>
    /\ storage = TRUE
    /\ other = [transaction |-> {}, batch |-> <<>>]

Next ==
    \/ \E id \in IdPool, cert \in CertPool : Insert(id, cert)
    \/ Rollback
    \/ \E cores \in CoresPool : CommitSequential(cores)
    \/ \E cores \in CoresPool : CommitParallel(cores)

Spec == Init /\ [][Next]_vars

\* The instance driven by insert, the default commit and rollback only.
NextSeq ==
    \/ \E id \in IdPool, cert \in CertPool : Insert(id, cert)
    \/ Rollback
    \/ \E cores \in {1} : CommitSequential(cores)

SpecSeq == Init /\ [][NextSeq]_vars

\* The instance as the lookups see it: which ids exist does not depend on
\* the texts, so the callers insert one text only.
NextLookup ==
    \/ \E id \in ValidIds : Insert(id, <<"A">>)
    \/ Rollback
    \/ \E cores \in CoresPool : CommitSequential(cores)
    \/ \E cores \in CoresPool : CommitParallel(cores)

SpecLookup == Init /\ [][NextLookup]_vars

\* ------------------------------------------------------------------------
\* commit with I/O calls that raise
\* ------------------------------------------------------------------------

\* A commit that an exception left: the call and the target whose
\* persist_and_clean_storage_target raised.
CallFailed(cores, targets, outcome, failed) ==
    [op |-> "commit", cores |-> cores, targets |-> targets, outcome |-> outcome,
     reinsert |-> <<>>, failed |-> failed]

\* The I/O calls of persist_and_clean_storage_target that may raise OSError:
\* ZipFile(...), os.listdir, zf.write (its open of the loose file) and
\* shutil.rmtree (an unlink or the final rmdir).
FaultPoints == {"open", "listdir", "write", "rmtree"}

\* The archive and the directory of target after
\* persist_and_clean_storage_target(target) in which the call named by point
\* raises ("none": no call is made to raise), n loose files having been
\* handled by that call before.  os.listdir raises FileNotFoundError when
\* the directory is gone.  ZipFile in mode "w" has created the archive as
\* soon as it is opened, and the with statement closes it on every exit.
TargetAfter(target, names, point, n) ==
    LET append == target \in DOMAIN zips
        hasDir == target \in DOMAIN loose
        dir == IF hasDir THEN loose[target] ELSE <<>>
        zf == IF append THEN zips[target] ELSE <<>>
        certs == IF append
                 THEN SelectSeq(names, LAMBDA c : c \notin NameList(zf))
                 ELSE names
        written(m) == zf \o [i \in 1..m |-> [name |-> certs[i], data |-> dir[certs[i]]]]
        left == {names[i] : i \in (n + 1)..Len(names)}
    IN  IF point = "open"
        THEN [err |-> "OSError", hasZip |-> append, zip |-> zf,
              hasDir |-> hasDir, dir |-> dir]
        ELSE IF ~hasDir
        THEN [err |-> "FileNotFoundError", hasZip |-> TRUE, zip |-> zf,
              hasDir |-> FALSE, dir |-> dir]
        ELSE IF point = "listdir"
        THEN [err |-> "OSError", hasZip |-> TRUE, zip |-> zf,
              hasDir |-> TRUE, dir |-> dir]
        ELSE IF point = "write"
        THEN [err |-> "OSError", hasZip |-> TRUE, zip |-> written(n),
              hasDir |-> TRUE, dir |-> dir]
        ELSE IF point = "rmtree"
        THEN [err |-> "OSError", hasZip |-> TRUE, zip |-> written(Len(certs)),
              hasDir |-> TRUE, dir |-> [f \in left |-> dir[f]]]
        ELSE [err |-> "ok", hasZip |-> TRUE, zip |-> PersistTarget(target, names),
              hasDir |-> FALSE, dir |-> <<>>]

\* The number of loose files the raising call can have handled: zf.write
\* raises at one of the files it is to write, shutil.rmtree at one of the
\* files of the directory or at the directory itself.
FaultProgress(target, names, point) ==
    LET zf == IF target \in DOMAIN zips THEN zips[target] ELSE <<>>
        certs == SelectSeq(names, LAMBDA c : c \notin NameList(zf))
    IN  IF point = "write" THEN 0..(Len(certs) - 1)
        ELSE IF point = "rmtree" THEN 0..Len(names)
        ELSE {0}

\* commit(): the journaled targets are persisted in the order seq of the set
\* iteration; the I/O call point of the k-th target raises (k = 0: none is
\* made to raise).  The first exception leaves the loop and the method:
\* the later targets are not visited and the journal is not cleared.
CommitFaulty(seq, k, point, n) ==
    /\ seq \in ListDirOrders(transaction)
    /\ k \in 0..Len(seq)
    /\ k = 0 => point = "none" /\ n = 0
    /\ k > 0 => point \in FaultPoints
    /\ UNCHANGED <<storage, other>>
    /\ \E order \in [transaction -> UNION ({{<<>>}} \cup {ListDirOrders(DOMAIN loose[t]) : t \in transaction \cap DOMAIN loose})] :
          /\ \A t \in transaction :
                order[t] \in (IF t \in DOMAIN loose THEN ListDirOrders(DOMAIN loose[t]) ELSE {<<>>})
          /\ k > 0 => n \in FaultProgress(seq[k], order[seq[k]], point)
          /\ LET res == [i \in 1..Len(seq) |->
                            TargetAfter(seq[i], order[seq[i]],
                                        IF i = k THEN point ELSE "none",
                                        IF i = k THEN n ELSE 0)]
                 bad == {i \in 1..Len(seq) : res[i].err # "ok"}
                 e == IF bad = {} THEN 0 ELSE CHOOSE i \in bad : \A j \in bad : i <= j
                 visited == IF e = 0 THEN 1..Len(seq) ELSE 1..e
                 at(l) == CHOOSE i \in visited : seq[i] = l
                 done == {seq[i] : i \in visited}
             IN  /\ zips' = [l \in (DOMAIN zips \ done) \cup {t \in done : res[at(t)].hasZip} |->
                                IF l \in done THEN res[at(l)].zip ELSE zips[l]]
                 /\ loose' = [l \in (DOMAIN loose \ done) \cup {t \in done : res[at(t)].hasDir} |->
                                 IF l \in done THEN res[at(l)].dir ELSE loose[l]]
                 /\ IF e = 0
                    THEN /\ transaction' = {}
                         /\ batch' = <<>>
                         /\ lastOp' = Call("commit", 1, transaction, "ok", <<>>)
                    ELSE /\ lastOp' = CallFailed(1, transaction, res[e].err, seq[e])
                         /\ UNCHANGED <<transaction, batch>>

\* The instance driven by insert and the default commit, the I/O calls of
\* which may raise.
NextFaulty ==
    \/ \E id \in ValidIds : Insert(id, <<"A">>)
    \/ \E seq \in ListDirOrders(transaction), k \in 0..MaxId + 1,
          point \in FaultPoints \cup {"none"}, n \in 0..MaxId + 1 :
          CommitFaulty(seq, k, point, n)

SpecFaulty == Init /\ [][NextFaulty]_vars

\* ------------------------------------------------------------------------
\* commit with the compactions of its targets interleaved
\* ------------------------------------------------------------------------

\* A commit in flight: for every journaled target the position of its
\* persist_and_clean_storage_target (pc), the flag append, the result of
\* os.listdir (names), the loose files still to be written (certs), the disk
\* as the commit found it (start) and whether a step was taken while another
\* target was between its first and its last step (mixed).
CallRunning(targets, pc, append, names, certs, start, mixed) ==
    [op |-> "commit", cores |-> 1, targets |-> targets, outcome |-> "running",
     reinsert |-> <<>>, pc |-> pc, append |-> append, names |-> names,
     certs |-> certs, start |-> start, mixed |-> mixed]

Running == lastOp.outcome = "running"

\* Another target than t is between its first and its last step.
OtherInFlight(t) ==
    \E u \in lastOp.targets \ {t} : lastOp.pc[u] \in {"listdir", "write", "rmtree"}

\* The in-flight commit after a step of target t.
Advance(t, pc, append, names, certs) ==
    CallRunning(lastOp.targets,
                [lastOp.pc EXCEPT ![t] = pc],
                [lastOp.append EXCEPT ![t] = append],
                [lastOp.names EXCEPT ![t] = names],
                [lastOp.certs EXCEPT ![t] = certs],
                lastOp.start,
                lastOp.mixed \/ OtherInFlight(t))

\* commit() enters its loop: no target is visited yet.
CommitBegin ==
    /\ ~Running
    /\ transaction # {}
    /\ lastOp' = CallRunning(transaction,
                             [t \in transaction |-> "open"],
                             [t \in transaction |-> FALSE],
                             [t \in transaction |-> <<>>],
                             [t \in transaction |-> <<>>],
                             [loose |-> loose, zips |-> zips],
                             FALSE)
    /\ UNCHANGED <<loose, zips, transaction, batch, storage, other>>

\* os.path.exists(zipfilename) and ZipFile(zipfilename, "a" or "w").
StepOpen(t) ==
    /\ Running /\ t \in lastOp.targets /\ lastOp.pc[t] = "open"
    /\ zips' = IF t \in DOMAIN zips THEN zips
               ELSE [l \in DOMAIN zips \cup {t} |-> IF l = t THEN <<>> ELSE zips[l]]
    /\ lastOp' = Advance(t, "listdir", t \in DOMAIN zips, <<>>, <<>>)
    /\ UNCHANGED <<loose, transaction, batch, storage, other>>

\* shutil.rmtree of every journaled directory instead of the target's own.
StepRmtree_Journal(t) ==
    /\ Running /\ t \in lastOp.targets /\ lastOp.pc[t] = "rmtree"
    /\ loose' = CleanStorageTarget(loose, lastOp.targets)
    /\ lastOp' = Advance(t, "done", lastOp.append[t], lastOp.names[t], <<>>)
    /\ UNCHANGED <<zips, transaction, batch, storage, other>>

\* clean_storage_target(target)
StepRmtree(t) ==
    /\ Running /\ t \in lastOp.targets /\ lastOp.pc[t] = "rmtree"
    /\ loose' = CleanStorageTarget(loose, {t})
    /\ lastOp' = Advance(t, "done", lastOp.append[t], lastOp.names[t], <<>>)
    /\ UNCHANGED <<zips, transaction, batch, storage, other>>

\* os.listdir(target) without the namelist filter of the append mode.
StepListdir_NoFilter(t) ==
    /\ Running /\ t \in lastOp.targets /\ lastOp.pc[t] = "listdir"
    /\ t \in DOMAIN loose
    /\ \E names \in ListDirOrders(DOMAIN loose[t]) :
          lastOp' = Advance(t, "write", lastOp.append[t], names, names)
    /\ UNCHANGED <<loose, zips, transaction, batch, storage, other>>

\* certs = os.listdir(target), filtered by zf.namelist() in append mode.
StepListdir(t) ==
    /\ Running /\ t \in lastOp.targets /\ lastOp.pc[t] = "listdir"
    /\ t \in DOMAIN loose
    /\ \E names \in ListDirOrders(DOMAIN loose[t]) :
          lastOp' = Advance(t, "write", lastOp.append[t], names,
                            IF lastOp.append[t]
                            THEN SelectSeq(names, LAMBDA c : c \notin NameList(zips[t]))
                            ELSE names)
    /\ UNCHANGED <<loose, zips, transaction, batch, storage, other>>

\* One round of the loop of zf.write; the with statement is left (and the
\* archive closed) when no cert remains.
StepWrite(t) ==
    /\ Running /\ t \in lastOp.targets /\ lastOp.pc[t] = "write"
    /\ IF lastOp.certs[t] = <<>>
       THEN /\ lastOp' = Advance(t, "rmtree", lastOp.append[t], lastOp.names[t], <<>>)
            /\ UNCHANGED zips
       ELSE /\ t \in DOMAIN loose /\ Head(lastOp.certs[t]) \in DOMAIN loose[t]
            /\ zips' = [zips EXCEPT ![t] =
                           Append(@, [name |-> Head(lastOp.certs[t]),
                                      data |-> loose[t][Head(lastOp.certs[t])]])]
            /\ lastOp' = Advance(t, "write", lastOp.append[t], lastOp.names[t],
                                 Tail(lastOp.certs[t]))
    /\ UNCHANGED <<loose, transaction, batch, storage, other>>

\* Every target is persisted and cleaned: the journal is cleared.
CommitEnd ==
    /\ Running
    /\ \A t \in lastOp.targets : lastOp.pc[t] = "done"
    /\ transaction' = {}
    /\ batch' = <<>>
    /\ lastOp' = Call("commit", 1, lastOp.targets, "ok", <<>>)
    /\ UNCHANGED <<loose, zips, storage, other>>

NextSteps ==
    \/ ~Running /\ \E id \in ValidIds : Insert(id, <<"A">>)
    \/ CommitBegin
    \/ \E t \in transaction : StepOpen(t)
    \/ \E t \in transaction : StepListdir(t)
    \/ \E t \in transaction : StepWrite(t)
    \/ \E t \in transaction : StepRmtree(t)
    \/ CommitEnd

SpecSteps == Init /\ [][NextSteps]_vars

\* The journal only names directories that exist (the guards of Rollback
\* and CommitSequential never block).
TransactionDirsExist == transaction \subseteq DOMAIN loose

\* ------------------------------------------------------------------------
\* Vocabulary of the properties
\* ------------------------------------------------------------------------

\* id has a loose file <id>.pem in the directory of its shard.
HasLooseFile(id) == LooseFileExists(GetCertLocation(id), IdToFilename(id))

\* The bytes of the loose file of id.
LooseBytes(id) == loose[GetCertLocation(id)][IdToFilename(id)]

\* id has an entry <id>.pem in the archive of its shard.
InArchive(id) == ZipHasEntry(GetCertLocation(id), IdToFilename(id))

\* The bytes of the archive entry of id.
ArchiveBytes(id) == GetInfo(zips[GetCertLocation(id)], IdToFilename(id)).data

\* The entries of the archive zf named name.
EntriesNamed(zf, name) == {i \in 1..Len(zf) : zf[i].name = name}

NonEmptyCerts == CertPool \ {<<>>}

\* ------------------------------------------------------------------------
\* Properties
\* ------------------------------------------------------------------------

\* The step is a call of commit with cores <= 1 (only the commit actions
\* set lastOp.op to "commit").
DefaultCommit == lastOp'.op = "commit" /\ lastOp'.cores <= 1

\* The step is a call of commit, whatever cores.
AnyCommit == lastOp'.op = "commit"

\* The step is a call of rollback.
RollbackCall == lastOp'.op = "rollback"

\* C1: round trip.  When insert(id, cert) has written the loose file of an
\* id that no archive holds, then after the sequential commit of the batch
\* get(id) returns exactly cert, read from the entry <id>.pem of the shard
\* archive, and the loose-file directory of the shard is gone.
C1_RoundTrip ==
    [][DefaultCommit =>
          \A id \in DOMAIN batch :
             ~InArchive(id)
             => /\ Get(id)' = Found(batch[id])
                /\ InArchive(id)'
                /\ ArchiveBytes(id)' = batch[id]
                /\ GetCertLocation(id) \notin DOMAIN loose']_vars

\* A sequential commit has persisted a journaled shard: one of its ids is
\* read from the archive with its CR LF line end and the directory of the
\* shard is gone.
C1_Witness ==
    /\ lastOp.op = "commit"
    /\ lastOp.cores <= 1
    /\ \E id \in ValidIds :
          /\ GetCertLocation(id) \in lastOp.targets
          /\ GetCertLocation(id) \notin DOMAIN loose
          /\ Get(id) = Found(<<"A", "CR", "LF">>)

\* C2: rollback is atomic.  After rollback the journal is empty, no
\* directory of a journaled shard remains, every id inserted in the batch
\* that is not in an archive does not exist, every archived id is still read
\* with its archived content, and the archives are as before.
C2_RollbackAtomic ==
    [][RollbackCall =>
          /\ transaction' = {}
          /\ \A t \in transaction : t \notin DOMAIN loose'
          /\ zips' = zips
          /\ \A id \in DOMAIN batch : ~InArchive(id) => ~Exists(id)'
          /\ \A id \in ValidIds :
                InArchive(id) => Get(id)' = Found(ArchiveBytes(id))]_vars

\* A rollback has discarded a batch next to committed certificates: an id
\* is still read from its archive and an id of a discarded shard is gone.
C2_Witness ==
    /\ lastOp.op = "rollback"
    /\ lastOp.targets # {}
    /\ \E id \in ValidIds : InArchive(id) /\ Get(id).ok
    /\ \E id \in ValidIds :
          GetCertLocation(id) \in lastOp.targets /\ ~Exists(id)

\* C3: in every reachable state no id has both a loose file and an entry in
\* its shard archive with different content (insert is a no-op when the id
\* exists anywhere in the store).
C3_NoContradiction ==
    \A id \in ValidIds :
        (HasLooseFile(id) /\ InArchive(id)) => LooseBytes(id) = ArchiveBytes(id)

\* C4: committed records are immutable to readers.  An id archived with
\* content c is read as c by get after every further call.
C4_CommittedImmutable ==
    [][\A id \in ValidIds :
          InArchive(id) => Get(id)' = Found(ArchiveBytes(id))]_vars

\* C5: idempotent insert within a batch.  When insert(id, c1) has written
\* the loose file of id in the open batch, a later insert(id, c2) of the
\* batch with c2 # c1 succeeds and leaves the loose files and the journal
\* unchanged, the loose file holding c1; and when the sequential commit
\* follows, get(id) returns c1.
C5_IdempotentInsert ==
    [][\A id \in DOMAIN batch :
          /\ \A c2 \in NonEmptyCerts :
                (c2 # batch[id] /\ Insert(id, c2))
                => /\ lastOp'.outcome = "exists"
                   /\ loose' = loose
                   /\ transaction' = transaction
                   /\ LooseBytes(id)' = batch[id]
          /\ (lastOp.reinsert = id /\ DefaultCommit)
             => Get(id)' = Found(batch[id])]_vars

\* C6: no archive ever contains two entries with the same name.
C6_NoDuplicateEntries ==
    \A loc \in DOMAIN zips :
        \A name \in NameList(zips[loc]) :
            Cardinality(EntriesNamed(zips[loc], name)) = 1

\* A commit has filled the archive of a journaled shard: it holds two
\* entries of different content.
C6_Witness ==
    /\ lastOp.op = "commit"
    /\ lastOp.cores <= 1
    /\ \E loc \in lastOp.targets :
          /\ loc \in DOMAIN zips
          /\ Len(zips[loc]) = 2
          /\ zips[loc][1].data # zips[loc][2].data

\* C7: commit with cores > 1 has the effect of the sequential commit.  After
\* commit(cores), for any cores, the journal is empty, no directory of a
\* journaled shard remains and every id inserted in the batch exists.
C7_ParallelCommit ==
    [][AnyCommit =>
          /\ transaction' = {}
          /\ \A t \in transaction : t \notin DOMAIN loose'
          /\ \A id \in DOMAIN batch : Exists(id)']_vars

\* C8: journal accuracy.  Between the calls of an instance driven by
\* insert, the sequential commit and rollback, the journal is exactly the
\* set of shard directories on disk, and each of them holds a loose file;
\* after commit and after rollback no directory is left.
C8_JournalAccurate ==
    /\ transaction = DOMAIN loose
    /\ \A loc \in DOMAIN loose : DOMAIN loose[loc] # {}
    /\ lastOp.op \in {"commit", "rollback"} => DOMAIN loose = {}

\* Two shards are journaled next to an archive of an earlier commit.
C8_Witness ==
    /\ Cardinality(transaction) = 2
    /\ zips # <<>>
    /\ lastOp.op = "insert"

\* C9: the state machine of the instance.  After every successful insert
\* the journal holds the shard of the inserted id (Dirty), after every
\* commit and every rollback the journal is empty (Clean).
C9_StateMachine ==
    [][/\ \A id \in IdPool, cert \in CertPool :
             (Insert(id, cert) /\ lastOp'.outcome \in {"inserted", "exists"})
             => GetCertLocation(id) \in transaction'
       /\ (AnyCommit \/ RollbackCall) => transaction' = {}]_vars

\* C10: resolution of get.  get(id) returns the content of the loose file of
\* id when there is one, otherwise the content of the archive entry of id,
\* and fails with NotAvailable(id) exactly when there is neither.
C10_GetResolution ==
    \A id \in ValidIds :
        Get(id) = IF HasLooseFile(id) THEN Found(LooseBytes(id))
                  ELSE IF InArchive(id) THEN Found(ArchiveBytes(id))
                  ELSE CertNotAvailableError(id)

\* The lists of ids passed to exists_all have at most MaxIdsLen ids.
MaxIdsLen == 2

IdLists == UNION {[1..n -> ValidIds] : n \in 0..MaxIdsLen}

Reverse(ids) == [i \in 1..Len(ids) |-> ids[Len(ids) + 1 - i]]

\* C13: insert(id, cert) with an empty id or an empty cert fails with
\* InvalidInput (CertInvalidError) and leaves the store unchanged: the
\* directories, the loose files, the journal and the archives are as before.
C13_InvalidInsert ==
    [][/\ \A id \in IdPool, cert \in CertPool :
             ((id = <<>> \/ cert = <<>>) /\ Insert(id, cert))
             => lastOp'.outcome = "CertInvalidError"
       /\ (lastOp'.op = "insert" /\ lastOp'.outcome = "CertInvalidError")
          => /\ loose' = loose
             /\ transaction' = transaction
             /\ zips' = zips]_vars

\* An insert was refused while a batch was open next to an archive.
C13_Witness ==
    /\ lastOp.op = "insert"
    /\ lastOp.outcome = "CertInvalidError"
    /\ transaction # {}
    /\ zips # <<>>

\* C14: insert and rollback never touch an archive: the set of archives
\* and the entries of each archive are the same before and after the call.
C14_ArchivesUntouched ==
    [][lastOp'.op \in {"insert", "rollback"} => zips' = zips]_vars

\* A rollback has removed the directory of a shard that has an archive.
C14_Witness ==
    /\ lastOp.op = "rollback"
    /\ \E t \in lastOp.targets : t \in DOMAIN zips /\ Len(zips[t]) > 0

\* C15: exists_all(ids) is true if and only if exists(id) is true for every
\* id of ids (true for the empty list), whatever the order of ids.
C15_ExistsAll ==
    \A ids \in IdLists :
        /\ ExistsAll(ids) = (\A i \in 1..Len(ids) : Exists(ids[i]))
        /\ ExistsAll(Reverse(ids)) = ExistsAll(ids)

\* Some id exists and another one does not: exists_all is true of a list
\* and false of a longer one, in both orders.
C15_Witness ==
    \E a, b \in ValidIds :
        /\ Exists(a) /\ ~Exists(b)
        /\ ExistsAll(<<a>>)
        /\ ~ExistsAll(<<a, b>>)
        /\ ~ExistsAll(<<b, a>>)

\* The shard t as a step left it: not touched at all, or fully compacted
\* (its directory deleted, every loose file it held an entry of its archive).
ShardUntouched(t) ==
    /\ (t \in DOMAIN loose) = (t \in DOMAIN loose')
    /\ t \in DOMAIN loose => loose'[t] = loose[t]
    /\ (t \in DOMAIN zips) = (t \in DOMAIN zips')
    /\ t \in DOMAIN zips => zips'[t] = zips[t]

ShardCompacted(t) ==
    /\ t \notin DOMAIN loose'
    /\ t \in DOMAIN zips'
    /\ t \in DOMAIN loose => \A f \in DOMAIN loose[t] : f \in NameList(zips'[t])

\* C11: a commit in which the compaction of one shard raises an I/O error
\* ends with that error, still has every loose file of the failing shard
\* on disk, and has left every other shard fully compacted or untouched.
C11_FailedShardIsolated ==
    [][(lastOp'.op = "commit" /\ lastOp'.outcome = "OSError")
       => /\ lastOp'.failed \in DOMAIN loose =>
                /\ lastOp'.failed \in DOMAIN loose'
                /\ loose'[lastOp'.failed] = loose[lastOp'.failed]
          /\ \A t \in (DOMAIN loose \cup DOMAIN zips) \ {lastOp'.failed} :
                ShardUntouched(t) \/ ShardCompacted(t)]_vars

\* C12: after a commit that an I/O error left part-way (a journaled
\* directory is already compacted and deleted, the journal is kept), a
\* commit in which no I/O call is made to raise succeeds, has every loose
\* file that was left in its archive, and empties the journal.
C12_CommitRetry ==
    [][(/\ lastOp.op = "commit" /\ lastOp.outcome = "OSError"
        /\ \E t \in transaction : t \notin DOMAIN loose
        /\ lastOp'.op = "commit" /\ lastOp'.outcome # "OSError")
       => /\ lastOp'.outcome = "ok"
          /\ transaction' = {}
          /\ \A t \in transaction \cap DOMAIN loose : \A f \in DOMAIN loose[t] :
                t \in DOMAIN zips' /\ f \in NameList(zips'[t])]_vars

\* The archive persist_and_clean_storage_target makes of the archive zf
\* (<<>> when there was none) and the directory dir listed in the order
\* names, when it runs alone.
PersistAlone(hadZip, zf, dir, names) ==
    LET certs == IF hadZip
                 THEN SelectSeq(names, LAMBDA c : c \notin NameList(zf))
                 ELSE names
    IN  zf \o [i \in 1..Len(certs) |-> [name |-> certs[i], data |-> dir[certs[i]]]]

\* C16: while the compactions of the journaled shards are interleaved step
\* by step, a shard not yet visited is as the commit found it, a shard whose
\* compaction is done has no directory and exactly the archive its
\* compaction makes when it runs alone, and no other shard is touched.
C16_ShardsIndependent ==
    Running =>
        /\ \A t \in lastOp.targets :
              /\ lastOp.pc[t] = "open" =>
                    /\ t \in DOMAIN loose /\ loose[t] = lastOp.start.loose[t]
                    /\ (t \in DOMAIN zips) = (t \in DOMAIN lastOp.start.zips)
                    /\ t \in DOMAIN zips => zips[t] = lastOp.start.zips[t]
              /\ lastOp.pc[t] = "done" =>
                    /\ t \notin DOMAIN loose
                    /\ t \in DOMAIN zips
                    /\ zips[t] = PersistAlone(t \in DOMAIN lastOp.start.zips,
                                              IF t \in DOMAIN lastOp.start.zips
                                              THEN lastOp.start.zips[t] ELSE <<>>,
                                              lastOp.start.loose[t], lastOp.names[t])
        /\ \A t \in (DOMAIN lastOp.start.zips \cup DOMAIN zips) \ lastOp.targets :
              t \in DOMAIN zips /\ t \in DOMAIN lastOp.start.zips
              /\ zips[t] = lastOp.start.zips[t]
        /\ DOMAIN loose \subseteq lastOp.targets

C16_Witness ==
    /\ Running /\ lastOp.mixed
    /\ Cardinality(lastOp.targets) > 1
    /\ \A t \in lastOp.targets : lastOp.pc[t] = "done"
    /\ \E t \in lastOp.targets :
          /\ t \in DOMAIN lastOp.start.zips
          /\ Len(zips[t]) > Len(lastOp.start.zips[t])
          /\ \E f \in DOMAIN lastOp.start.loose[t] : f \in NameList(lastOp.start.zips[t])

\* ------------------------------------------------------------------------
\* Sessions: instances constructed over a root that earlier ones have used
\* ------------------------------------------------------------------------

\* CertFileDBReadOnly(storage) that creates the certificate storage.
ConstructReadOnly_MakeDirs ==
    /\ transaction' = {}
    /\ batch' = <<>>
    /\ storage' = TRUE
    /\ UNCHANGED other
    /\ lastOp' = Call("CertFileDBReadOnly", 0, {}, "ok", <<>>)
    /\ UNCHANGED <<loose, zips>>

\* CertFileDBReadOnly(storage): the journal is set to the empty set, then
\* ValueError is raised unless the certificate storage exists.  The journal
\* and the open batch of the instance used before are lost.
ConstructReadOnly ==
    /\ transaction' = {}
    /\ batch' = <<>>
    /\ lastOp' = Call("CertFileDBReadOnly", 0, {},
                      IF storage THEN "ok" ELSE "ValueError", <<>>)
    /\ UNCHANGED <<loose, zips, storage, other>>

\* CertFileDB(storage): the ValueError of the base constructor is caught and
\* the certificate storage is created.
ConstructWritable ==
    /\ transaction' = {}
    /\ batch' = <<>>
    /\ storage' = TRUE
    /\ UNCHANGED other
    /\ lastOp' = Call("CertFileDB", 0, {}, "ok", <<>>)
    /\ UNCHANGED <<loose, zips>>

\* The instance in use is a CertFileDB.
Writable == lastOp.op \in {"CertFileDB", "insert", "commit", "rollback"}

\* A root on which no instance is constructed yet, with or without the
\* certificate storage.
InitRoot ==
    /\ storage \in BOOLEAN
    /\ other = [transaction |-> {}, batch |-> <<>>]
    /\ loose = <<>>
    /\ zips = <<>>
    /\ transaction = {}
    /\ lastOp = Call("none", 0, {}, "ok", <<>>)
    /\ batch = <<>>

NextSessions ==
    \/ ConstructReadOnly
    \/ ConstructWritable
    \/ Writable /\ \E id \in ValidIds, cert \in NonEmptyCerts : Insert(id, cert)
    \/ Writable /\ Rollback
    \/ Writable /\ \E cores \in {1} : CommitSequential(cores)

SpecSessions == InitRoot /\ [][NextSessions]_vars

\* C17: CertFileDBReadOnly over a root without the certificate storage
\* raises ValueError and creates nothing, CertFileDB over it succeeds and
\* creates the storage; over a root with the storage both succeed; every
\* constructor leaves the stored data as it is and starts with an empty
\* journal.
C17_Construction ==
    [][/\ lastOp'.op = "CertFileDBReadOnly" =>
             /\ lastOp'.outcome = (IF storage THEN "ok" ELSE "ValueError")
             /\ storage' = storage
       /\ lastOp'.op = "CertFileDB" =>
             /\ lastOp'.outcome = "ok"
             /\ storage'
       /\ lastOp'.op \in {"CertFileDBReadOnly", "CertFileDB"} =>
             /\ transaction' = {}
             /\ loose' = loose /\ zips' = zips]_vars

C17_Witness ==
    /\ lastOp.op = "CertFileDBReadOnly" /\ lastOp.outcome = "ValueError"
    /\ ~storage /\ loose = <<>> /\ zips = <<>>

\* C18: get and exists take no account of a loose file whose shard is not
\* in the journal of the instance: they answer from the archive alone.
C18_OverlayOnlyIfJournaled ==
    \A id \in ValidIds :
        GetCertLocation(id) \notin transaction =>
            /\ Exists(id) = InArchive(id)
            /\ Get(id) = (IF InArchive(id)
                          THEN Found(ZipReadText(ArchiveBytes(id)))
                          ELSE CertNotAvailableError(id))

\* C19: on a CertFileDB constructed over a root that holds loose files of a
\* lost session, commit() right after an insert that returned makes exists
\* true for the inserted id: for every id the open batch has written and,
\* when the insert found a loose file <id>.pem in place, for every id that
\* has one (each of them an id the insert can have been called with).
C19_Recovery ==
    [][(/\ lastOp.op = "insert" /\ lastOp.outcome \in {"inserted", "exists"}
        /\ lastOp'.op = "commit")
       => \A id \in ValidIds :
             (\/ id \in DOMAIN batch
              \/ lastOp.outcome = "exists" /\ HasLooseFile(id))
             => (transaction' = {} /\ InArchive(id)')]_vars

\* The loose files the commit in flight found in the directory of target t
\* that were entries of its archive already, and those that were not.
StaleNames(t) ==
    IF t \in DOMAIN lastOp.start.zips
    THEN DOMAIN lastOp.start.loose[t] \cap NameList(lastOp.start.zips[t])
    ELSE {}

FreshNames(t) == DOMAIN lastOp.start.loose[t] \ StaleNames(t)

\* The archive of t as the commit in flight found it (<<>>: none).
StartZip(t) ==
    IF t \in DOMAIN lastOp.start.zips THEN lastOp.start.zips[t] ELSE <<>>

\* C20: a finished compaction has deleted the directory, kept every entry
\* the archive had, and appended one entry, with the bytes of the loose
\* file, for exactly the loose files that were not entries yet: none when
\* all of them were.
C20_CompactIdempotent ==
    Running =>
        \A t \in lastOp.targets :
            lastOp.pc[t] = "done" =>
                /\ t \notin DOMAIN loose
                /\ Len(zips[t]) = Len(StartZip(t)) + Cardinality(FreshNames(t))
                /\ SubSeq(zips[t], 1, Len(StartZip(t))) = StartZip(t)
                /\ \A f \in FreshNames(t) :
                      \E i \in (Len(StartZip(t)) + 1)..Len(zips[t]) :
                          zips[t][i] = [name |-> f, data |-> lastOp.start.loose[t][f]]

C20_Witness ==
    /\ Running
    /\ \E t, u \in lastOp.targets :
          /\ lastOp.pc[t] = "done" /\ lastOp.pc[u] = "done"
          /\ StaleNames(t) # {} /\ FreshNames(t) = {} /\ zips[t] = StartZip(t)
          /\ StaleNames(u) # {} /\ FreshNames(u) # {}

\* C21: every step keeps every archive and, in it, every entry at its place
\* with its content; only a commit changes an archive, and the entries it
\* adds have names the archive did not have.
C21_ArchivesOnlyGrow ==
    [][/\ \A t \in DOMAIN zips :
             /\ t \in DOMAIN zips'
             /\ Len(zips'[t]) >= Len(zips[t])
             /\ SubSeq(zips'[t], 1, Len(zips[t])) = zips[t]
             /\ \A i \in (Len(zips[t]) + 1)..Len(zips'[t]) :
                   zips'[t][i].name \notin NameList(zips[t])
       /\ zips' # zips => lastOp'.op = "commit"]_vars

C21_Witness ==
    /\ lastOp.op = "commit" /\ lastOp.cores <= 1
    /\ \E t \in lastOp.targets :
          /\ t \in DOMAIN zips /\ Len(zips[t]) >= 2
          /\ zips[t][1].name # zips[t][2].name

\* C22: in every state exists(id) is true exactly when get(id) returns a
\* content and exactly when export(id, target_dir) returns a path (the
\* path of <id>.pem in target_dir); get and export raise
\* CertNotAvailableError(id) exactly when exists(id) is false.
C22_LookupsAgree ==
    \A id \in ValidIds :
        /\ Exists(id) = Get(id).ok
        /\ ~Exists(id) => Get(id) = CertNotAvailableError(id)
        /\ \A dir \in TargetDirs :
              /\ Exists(id) = Export(id, dir).ok
              /\ Exists(id) => Export(id, dir).val = JoinPath(dir, IdToFilename(id))
              /\ ~Exists(id) => Export(id, dir) = CertNotAvailableError(id)

C22_Witness ==
    \E a, b, c \in ValidIds :
        /\ transaction # {}
        /\ HasLooseFile(a) /\ ~InArchive(a) /\ Get(a).ok /\ Exists(a)
        /\ InArchive(b) /\ ~HasLooseFile(b) /\ Get(b).ok /\ Exists(b)
        /\ ~Exists(c) /\ ~Get(c).ok /\ ~Export(c, <<"out">>).ok

\* ------------------------------------------------------------------------
\* Two CertFileDB instances on one root
\* ------------------------------------------------------------------------

\* The caller turns to the other instance: the next calls are made on it.
Switch ==
    /\ transaction' = other.transaction
    /\ batch' = other.batch
    /\ other' = [transaction |-> transaction, batch |-> batch]
    /\ lastOp' = Call("switch", 0, {}, "ok", <<>>)
    /\ UNCHANGED <<loose, zips, storage>>

\* rollback when a journaled directory is gone: shutil.rmtree raises
\* FileNotFoundError at the first such directory of the set iteration, the
\* directories visited before it are removed, the journal is not cleared.
RollbackMissing ==
    /\ ~(transaction \subseteq DOMAIN loose)
    /\ \E seq \in ListDirOrders(transaction) :
          LET gone == {i \in 1..Len(seq) : seq[i] \notin DOMAIN loose}
              e == CHOOSE i \in gone : \A j \in gone : i <= j
          IN  loose' = CleanStorageTarget(loose, {seq[i] : i \in 1..(e - 1)})
    /\ lastOp' = Call("rollback", 0, transaction, "FileNotFoundError", <<>>)
    /\ UNCHANGED <<zips, transaction, batch, storage, other>>

NextTwo ==
    \/ \E id \in ValidIds : Insert(id, <<"A">>)
    \/ Rollback
    \/ RollbackMissing
    \/ \E seq \in ListDirOrders(transaction) : CommitFaulty(seq, 0, "none", 0)
    \/ Switch

SpecTwo == Init /\ [][NextTwo]_vars

\* C23: a commit of one instance adds to the archives only entries of ids
\* that this instance has inserted in its open batch, and every commit and
\* rollback of either instance completes without error.
C23_BatchIsolation ==
    [][/\ lastOp'.op = "commit" =>
             \A t \in DOMAIN zips' :
                 \A i \in (IF t \in DOMAIN zips THEN Len(zips[t]) + 1 ELSE 1)..Len(zips'[t]) :
                     \E id \in DOMAIN batch : zips'[t][i].name = IdToFilename(id)
       /\ lastOp'.op \in {"commit", "rollback"} => lastOp'.outcome = "ok"]_vars

====
